---- MODULE Spec2Model ----
(***************************************************************************)
(* ghadoc: Generate lists a directory of GitHub workflow files, extracts a *)
(* description and the triggers of every *.yml / *.yaml file               *)
(* (parseWorkflowFile) and writes a markdown table                         *)
(* (generateMarkdownTable).                                                *)
(*                                                                         *)
(* Text.  A Go string is modelled as a sequence of atoms.  An atom is      *)
(* either one of the characters the code looks at (" ", "\t", "#", ".",    *)
(* "/", "|", "\n", ...) or a word: a run of other characters that the      *)
(* code only copies around and compares as a whole.                         *)
(***************************************************************************)
EXTENDS Integers, Sequences, FiniteSets, TLC

(***************************************************************************)
(* Bounds of the model.                                                     *)
(***************************************************************************)
MaxLines == 3   \* lines of a file given to parseWorkflowFile
MaxKeys  == 2   \* keys of an `on` mapping, elements of an `on` sequence
MaxFiles == 2   \* entries of the listed directory

(***************************************************************************)
(* strings package                                                          *)
(***************************************************************************)
IsSpace(c) == c \in {" ", "\t"}

RECURSIVE TrimLeft(_)
TrimLeft(s) == IF s # <<>> /\ IsSpace(Head(s)) THEN TrimLeft(Tail(s)) ELSE s

RECURSIVE TrimRight(_)
TrimRight(s) ==
    IF s # <<>> /\ IsSpace(s[Len(s)]) THEN TrimRight(SubSeq(s, 1, Len(s) - 1)) ELSE s

\* strings.TrimSpace
TrimSpace(s) == TrimRight(TrimLeft(s))

\* strings.HasPrefix
HasPrefix(s, prefix) ==
    Len(s) >= Len(prefix) /\ SubSeq(s, 1, Len(prefix)) = prefix

\* strings.TrimPrefix
TrimPrefix(s, prefix) ==
    IF HasPrefix(s, prefix) THEN SubSeq(s, Len(prefix) + 1, Len(s)) ELSE s

\* strings.Join
RECURSIVE Join(_, _)
Join(elems, sep) ==
    IF elems = <<>> THEN <<>>
    ELSE IF Len(elems) = 1 THEN elems[1]
    ELSE elems[1] \o sep \o Join(Tail(elems), sep)

(***************************************************************************)
(* parseWorkflowFile: the description                                       *)
(***************************************************************************)
DescMarker == <<"#", "#">>          \* the "##" of lines 85 and 90
LineBreak  == <<"<br>">>            \* the "<br>" of line 96

\* line 90 without the strings.TrimSpace around strings.TrimPrefix
DescriptionLineUntrimmed(trimmedLine) == TrimPrefix(trimmedLine, DescMarker)

\* line 90: the text of one description line
DescriptionLine(trimmedLine) == TrimSpace(TrimPrefix(trimmedLine, DescMarker))

\* lines 81-92 with `continue` in place of `break`
RECURSIVE ScanDescriptionSkip(_, _)
ScanDescriptionSkip(lines, descriptionLines) ==
    IF lines = <<>> THEN descriptionLines
    ELSE LET trimmedLine == TrimSpace(Head(lines)) IN
         IF ~HasPrefix(trimmedLine, DescMarker)
         THEN ScanDescriptionSkip(Tail(lines), descriptionLines)
         ELSE ScanDescriptionSkip(Tail(lines),
                  Append(descriptionLines, DescriptionLine(trimmedLine)))

\* lines 81-92 with the lines before the first "##" line passed over: the
\* block may start below line 1 and ends at the first gap after it
RECURSIVE ScanDescriptionLate(_, _)
ScanDescriptionLate(lines, descriptionLines) ==
    IF lines = <<>> THEN descriptionLines
    ELSE LET trimmedLine == TrimSpace(Head(lines)) IN
         IF ~HasPrefix(trimmedLine, DescMarker)
         THEN IF descriptionLines = <<>>
              THEN ScanDescriptionLate(Tail(lines), descriptionLines)
              ELSE descriptionLines
         ELSE ScanDescriptionLate(Tail(lines),
                  Append(descriptionLines, DescriptionLine(trimmedLine)))

\* lines 81-92 with the blank lines before the block passed over
RECURSIVE ScanDescriptionSkipBlank(_, _)
ScanDescriptionSkipBlank(lines, descriptionLines) ==
    IF lines = <<>> THEN descriptionLines
    ELSE LET trimmedLine == TrimSpace(Head(lines)) IN
         IF trimmedLine = <<>> /\ descriptionLines = <<>>
         THEN ScanDescriptionSkipBlank(Tail(lines), descriptionLines)
         ELSE IF ~HasPrefix(trimmedLine, DescMarker)
         THEN descriptionLines
         ELSE ScanDescriptionSkipBlank(Tail(lines),
                  Append(descriptionLines, DescriptionLine(trimmedLine)))

\* lines 81-92 as the help text of the command words it: the first line that
\* starts with "##", wherever it is in the file, and that line only
RECURSIVE ScanDescriptionFirstMarked(_, _)
ScanDescriptionFirstMarked(lines, descriptionLines) ==
    IF lines = <<>> THEN descriptionLines
    ELSE LET trimmedLine == TrimSpace(Head(lines)) IN
         IF ~HasPrefix(trimmedLine, DescMarker)
         THEN ScanDescriptionFirstMarked(Tail(lines), descriptionLines)
         ELSE Append(descriptionLines, DescriptionLine(trimmedLine))

\* lines 81-92: the scanner loop over the lines still to read; it stops at the
\* end of the file or at the first line that does not start with "##"
RECURSIVE ScanDescription(_, _)
ScanDescription(lines, descriptionLines) ==
    IF lines = <<>> THEN descriptionLines
    ELSE LET trimmedLine == TrimSpace(Head(lines)) IN
         IF ~HasPrefix(trimmedLine, DescMarker)
         THEN descriptionLines
         ELSE ScanDescription(Tail(lines),
                  Append(descriptionLines, DescriptionLine(trimmedLine)))

\* lines 94-99 with a space as the separator
JoinDescriptionSpace(descriptionLines) ==
    IF Len(descriptionLines) > 0 THEN Join(descriptionLines, <<" ">>) ELSE <<>>

\* lines 94-99
JoinDescription(descriptionLines) ==
    IF Len(descriptionLines) > 0 THEN Join(descriptionLines, LineBreak) ELSE <<>>

\* lines 77-99: workflow.Description of a file with these lines
ExtractDescription(lines) == JoinDescription(ScanDescription(lines, <<>>))

(***************************************************************************)
(* yaml.Unmarshal(content, &yamlData), line 103.  The content of a file is *)
(* given with the YAML node tree it holds: a scalar with its resolved tag  *)
(* ("str", "int", "bool", "null"), a sequence of nodes, or a mapping, a    *)
(* sequence of key/value pairs in the order in which the file writes them. *)
(***************************************************************************)
ScalarNode(tag, text) ==
    [kind |-> "scalar", tag |-> tag, text |-> text, content |-> <<>>]
SequenceNode(items) ==
    [kind |-> "sequence", tag |-> "seq", text |-> <<>>, content |-> items]
MappingNode(pairs) ==
    [kind |-> "mapping", tag |-> "map", text |-> <<>>, content |-> pairs]
Pair(k, v) == [key |-> k, value |-> v]

Range(f) == {f[i] : i \in DOMAIN f}

\* yaml.v3 isStringMap: every key of the mapping is a string
IsStringMap(node) == \A p \in Range(node.content) : p.key.tag = "str"

\* The Go value yaml.v3 decodes a node to when the target is interface{}:
\* a string, another scalar, a []interface{}, or a map, which keeps no order
\* (a function from the key's text) and is a map[string]interface{} only if
\* every key is a string.
RECURSIVE Decode(_)
Decode(node) ==
    CASE node.kind = "scalar" ->
           [type |-> IF node.tag = "str" THEN "string" ELSE node.tag,
            str |-> node.text, elems |-> <<>>]
      [] node.kind = "sequence" ->
           [type |-> "[]interface{}", str |-> <<>>,
            elems |-> [i \in DOMAIN node.content |-> Decode(node.content[i])]]
      [] node.kind = "mapping" ->
           [type |-> IF IsStringMap(node) THEN "map[string]interface{}"
                     ELSE "map[interface{}]interface{}",
            str |-> <<>>,
            elems |-> [k \in {p.key.text : p \in Range(node.content)} |->
                        Decode((CHOOSE p \in Range(node.content) : p.key.text = k).value)]]

\* The document of a file: "malformed" (a syntax error), "empty" (no node: an
\* empty file, or comments only), or "node" with the root node.
MalformedDoc == [state |-> "malformed", root |-> ScalarNode("null", <<>>)]
EmptyDoc     == [state |-> "empty", root |-> ScalarNode("null", <<>>)]
NodeDoc(n)   == [state |-> "node", root |-> n]

\* lines 102-106 with an error for a syntax error only
UnmarshalFailsOnSyntaxOnly(doc) == doc.state = "malformed"

\* lines 102-106: err != nil.  A syntax error, and a root that is neither a
\* mapping nor null and so cannot be decoded into a map[string]interface{}.
UnmarshalFails(doc) ==
    \/ doc.state = "malformed"
    \/ /\ doc.state = "node"
       /\ doc.root.kind # "mapping"
       /\ ~(doc.root.kind = "scalar" /\ doc.root.tag = "null")

\* lines 102-103: yamlData after a successful Unmarshal (nil for an empty
\* document: a map with no key)
YamlData(doc) ==
    IF doc.state = "node" /\ doc.root.kind = "mapping"
    THEN Decode(doc.root).elems
    ELSE <<>>

(***************************************************************************)
(* parseWorkflowFile: the triggers                                          *)
(***************************************************************************)
\* The orders in which `for key := range v` can visit the keys of a Go map
RangeOrders(keys) ==
    {order \in [1..Cardinality(keys) -> keys] :
        \A i, j \in DOMAIN order : i # j => order[i] # order[j]}

\* lines 119-123 with the loop left at the first element that is no string
RECURSIVE StringItemsUntilOther(_)
StringItemsUntilOther(items) ==
    IF items = <<>> THEN <<>>
    ELSE IF Head(items).type = "string"
         THEN <<Head(items).str>> \o StringItemsUntilOther(Tail(items))
         ELSE <<>>

\* lines 119-123: the string elements of the slice, in order
RECURSIVE StringItems(_)
StringItems(items) ==
    IF items = <<>> THEN <<>>
    ELSE IF Head(items).type = "string"
         THEN <<Head(items).str>> \o StringItems(Tail(items))
         ELSE StringItems(Tail(items))

\* lines 111-127 with a default case that takes the text of the value
TriggersOfOtherAsText(onField) ==
    CASE onField.type = "map[string]interface{}" -> RangeOrders(DOMAIN onField.elems)
      [] onField.type = "[]interface{}" -> {StringItems(onField.elems)}
      [] OTHER -> {<<onField.str>>}

\* lines 111-127: the values workflow.Triggers can have after the type switch
TriggersOf(onField) ==
    CASE onField.type = "map[string]interface{}" -> RangeOrders(DOMAIN onField.elems)
      [] onField.type = "[]interface{}" -> {StringItems(onField.elems)}
      [] onField.type = "string" -> {<<onField.str>>}
      [] OTHER -> {<<>>}

OnKey == <<"on">>

\* lines 108-128
ExtractTriggers(yamlData) ==
    IF OnKey \in DOMAIN yamlData THEN TriggersOf(yamlData[OnKey]) ELSE {<<>>}

(***************************************************************************)
(* parseWorkflowFile, lines 61-131.  A file is [perm, lines, doc]: perm is *)
(* "ok", "noread" (os.ReadFile fails: the file is missing or unreadable)   *)
(* or "noopen" (os.Open fails after the read succeeded); lines are the     *)
(* lines bufio.Scanner returns (each within the scanner's token size, so   *)
(* that Scan ends at the end of the file only); doc is the YAML document   *)
(* of the content.  The result is [workflow, err]; the iteration over the  *)
(* Go map makes it a set of possible results.                               *)
(***************************************************************************)
WorkflowInfo(filename, description, triggers) ==
    [Filename |-> filename, Description |-> description, Triggers |-> triggers]

\* lines 61-131 with a missing `on` field reported as an error
parseWorkflowFileOnRequired(file) ==
    IF file.perm = "noread"
    THEN {[workflow |-> WorkflowInfo(<<>>, <<>>, <<>>), err |-> "read"]}
    ELSE IF file.perm = "noopen"
    THEN {[workflow |-> WorkflowInfo(<<>>, <<>>, <<>>), err |-> "open"]}
    ELSE LET description == ExtractDescription(file.lines) IN
         IF UnmarshalFails(file.doc) \/ OnKey \notin DOMAIN YamlData(file.doc)
         THEN {[workflow |-> WorkflowInfo(<<>>, description, <<>>), err |-> "yaml"]}
         ELSE {[workflow |-> WorkflowInfo(<<>>, description, t), err |-> "nil"] :
                  t \in ExtractTriggers(YamlData(file.doc))}

parseWorkflowFile(file) ==
    IF file.perm = "noread"
    THEN {[workflow |-> WorkflowInfo(<<>>, <<>>, <<>>), err |-> "read"]}
    ELSE IF file.perm = "noopen"
    THEN {[workflow |-> WorkflowInfo(<<>>, <<>>, <<>>), err |-> "open"]}
    ELSE LET description == ExtractDescription(file.lines) IN
         IF UnmarshalFails(file.doc)
         THEN {[workflow |-> WorkflowInfo(<<>>, description, <<>>), err |-> "yaml"]}
         ELSE {[workflow |-> WorkflowInfo(<<>>, description, t), err |-> "nil"] :
                  t \in ExtractTriggers(YamlData(file.doc))}

(***************************************************************************)
(* The files given to parseWorkflowFile.                                    *)
(***************************************************************************)
Push             == <<"push">>
PullRequest      == <<"pull_request">>
WorkflowDispatch == <<"workflow_dispatch">>
Str(text)        == ScalarNode("str", text)

\* A line that is neither blank nor a comment: it stands for the YAML text of
\* the file, whose meaning is the file's doc.
BodyLine == <<"key:", " ", "value">>

LineSet ==
    { <<"#", "#", " ", "A">>,                               \* "## A"
      <<"#", "#">>,                                         \* "##"
      <<"#", "#", "#", "A">>,                               \* "###A"
      <<" ", "#", "#", " ", " ", "B", " ", "|", "C", "\t">>,  \* " ##  B |C\t"
      <<>>,                                                 \* ""
      <<" ", "\t">>,                                        \* " \t"
      <<"#", " ", "c">>,                                    \* "# c"
      BodyLine }

RECURSIVE SeqsUpTo(_, _)
SeqsUpTo(S, n) ==
    IF n = 0 THEN {<<>>}
    ELSE LET shorter == SeqsUpTo(S, n - 1) IN
         shorter \cup {Append(q, x) : q \in {r \in shorter : Len(r) = n - 1}, x \in S}

IsInjective(q) == \A i, j \in DOMAIN q : i # j => q[i] # q[j]

\* The values under a trigger key: push: {branches: [main]},
\* pull_request: {types: [opened]}, the others null.
SubFields(key) ==
    CASE key = Str(Push) ->
           MappingNode(<<Pair(Str(<<"branches">>), SequenceNode(<<Str(<<"main">>)>>))>>)
      [] key = Str(PullRequest) ->
           MappingNode(<<Pair(Str(<<"types">>), SequenceNode(<<Str(<<"opened">>)>>))>>)
      [] OTHER -> ScalarNode("null", <<>>)

OnKeys  == {Str(Push), Str(PullRequest), Str(WorkflowDispatch), ScalarNode("int", <<"1">>)}
OnItems == {Str(Push), Str(PullRequest), ScalarNode("int", <<"1">>),
            MappingNode(<<Pair(Str(Push), ScalarNode("null", <<>>))>>)}

\* More elements that are no strings: a boolean, a null, a nested sequence
OtherItems == {ScalarNode("bool", <<"true">>), ScalarNode("null", <<>>),
               SequenceNode(<<Str(PullRequest)>>)}

\* The values of the `on` field
OnNodes ==
    {Str(Push), Str(PullRequest), ScalarNode("int", <<"1">>),
     ScalarNode("bool", <<"true">>), ScalarNode("null", <<>>)}
    \cup {SequenceNode(q) : q \in SeqsUpTo(OnItems, MaxKeys)}
    \cup {SequenceNode(<<x, Str(Push)>>) : x \in OtherItems}
    \cup {MappingNode([i \in DOMAIN q |-> Pair(q[i], SubFields(q[i]))]) :
             q \in {r \in SeqsUpTo(OnKeys, MaxKeys) : IsInjective(r)}}

NamePair == Pair(Str(<<"name">>), Str(<<"CI">>))

\* The documents of a file that has a body line
BodyDocs ==
    {MalformedDoc,
     NodeDoc(SequenceNode(<<Str(Push)>>)),
     NodeDoc(Str(Push)),
     NodeDoc(ScalarNode("null", <<>>)),
     NodeDoc(MappingNode(<<NamePair>>))}
    \cup {NodeDoc(MappingNode(<<NamePair, Pair(Str(OnKey), v)>>)) : v \in OnNodes}

HasBody(lines) == \E i \in DOMAIN lines : lines[i] = BodyLine

\* A file of blank lines and comments holds the empty document.
DocsOf(lines) == IF HasBody(lines) THEN BodyDocs ELSE {EmptyDoc}

File(perm, lines, doc) == [perm |-> perm, lines |-> lines, doc |-> doc]

(***************************************************************************)
(* The earlier parseWorkflowFile (src/README.md, lines 98-184), whose      *)
(* record has the two booleans OnPush and OnPR in place of Triggers.        *)
(***************************************************************************)
\* README lines 120-143 without the break on a first line that has no "##":
\* the block may start at any line
ScanDescriptionFlagsAnyStart(lines, descriptionLines, isFirstLine, foundDescription) ==
    ScanDescriptionLate(lines, descriptionLines)

\* README lines 120-143: the scanner loop with isFirstLine and foundDescription
RECURSIVE ScanDescriptionFlags(_, _, _, _)
ScanDescriptionFlags(lines, descriptionLines, isFirstLine, foundDescription) ==
    IF lines = <<>> THEN descriptionLines
    ELSE LET trimmedLine == TrimSpace(Head(lines)) IN
         IF isFirstLine
         THEN IF ~HasPrefix(trimmedLine, DescMarker)
              THEN descriptionLines
              ELSE ScanDescriptionFlags(Tail(lines),
                       Append(descriptionLines, DescriptionLine(trimmedLine)), FALSE, TRUE)
         ELSE IF HasPrefix(trimmedLine, DescMarker)
         THEN ScanDescriptionFlags(Tail(lines),
                  Append(descriptionLines, DescriptionLine(trimmedLine)),
                  FALSE, foundDescription)
         ELSE IF foundDescription
         THEN descriptionLines
         ELSE ScanDescriptionFlags(Tail(lines), descriptionLines, FALSE, foundDescription)

\* README lines 117-148
ExtractDescriptionFlags(lines) ==
    LET descriptionLines == ScanDescriptionFlags(lines, <<>>, TRUE, FALSE) IN
    IF Len(descriptionLines) > 0 THEN Join(descriptionLines, LineBreak) ELSE <<>>

\* README lines 160-180 without the case of the slice
OnPushOnPRNoSlice(onField) ==
    CASE onField.type = "map[string]interface{}" ->
           [OnPush |-> Push \in DOMAIN onField.elems,
            OnPR   |-> PullRequest \in DOMAIN onField.elems]
      [] onField.type = "string" ->
           [OnPush |-> onField.str = Push, OnPR |-> onField.str = PullRequest]
      [] OTHER -> [OnPush |-> FALSE, OnPR |-> FALSE]

\* README lines 160-180: the type switch; item == "push" holds for a string
\* element only
OnPushOnPR(onField) ==
    CASE onField.type = "map[string]interface{}" ->
           [OnPush |-> Push \in DOMAIN onField.elems,
            OnPR   |-> PullRequest \in DOMAIN onField.elems]
      [] onField.type = "[]interface{}" ->
           [OnPush |-> \E i \in DOMAIN onField.elems :
                          onField.elems[i].type = "string" /\ onField.elems[i].str = Push,
            OnPR   |-> \E i \in DOMAIN onField.elems :
                          onField.elems[i].type = "string"
                          /\ onField.elems[i].str = PullRequest]
      [] onField.type = "string" ->
           [OnPush |-> onField.str = Push, OnPR |-> onField.str = PullRequest]
      [] OTHER -> [OnPush |-> FALSE, OnPR |-> FALSE]

\* README lines 50-55
WorkflowInfoFlags(filename, description, onPush, onPR) ==
    [Filename |-> filename, Description |-> description, OnPush |-> onPush, OnPR |-> onPR]

\* README lines 98-184: [workflow, err]
parseWorkflowFileFlags(file) ==
    IF file.perm = "noread"
    THEN [workflow |-> WorkflowInfoFlags(<<>>, <<>>, FALSE, FALSE), err |-> "read"]
    ELSE IF file.perm = "noopen"
    THEN [workflow |-> WorkflowInfoFlags(<<>>, <<>>, FALSE, FALSE), err |-> "open"]
    ELSE LET description == ExtractDescriptionFlags(file.lines) IN
         IF UnmarshalFails(file.doc)
         THEN [workflow |-> WorkflowInfoFlags(<<>>, description, FALSE, FALSE), err |-> "yaml"]
         ELSE LET yamlData == YamlData(file.doc)
                  flags    == IF OnKey \in DOMAIN yamlData THEN OnPushOnPR(yamlData[OnKey])
                              ELSE [OnPush |-> FALSE, OnPR |-> FALSE]
              IN  [workflow |-> WorkflowInfoFlags(<<>>, description, flags.OnPush, flags.OnPR),
                   err |-> "nil"]

(***************************************************************************)
(* path/filepath, with "/" as the separator                                 *)
(***************************************************************************)
Separator == "/"

\* The elements of a path between its separators
RECURSIVE SplitPath(_, _, _)
SplitPath(path, element, elements) ==
    IF path = <<>> THEN Append(elements, element)
    ELSE IF Head(path) = Separator
         THEN SplitPath(Tail(path), <<>>, Append(elements, element))
         ELSE SplitPath(Tail(path), Append(element, Head(path)), elements)

IsRooted(path) == path # <<>> /\ Head(path) = Separator

\* filepath.Clean on the elements: "" and "." are dropped, ".." removes the
\* element before it, is dropped at the root and is kept at the start of a
\* relative path
RECURSIVE CleanElements(_, _, _)
CleanElements(elements, rooted, out) ==
    IF elements = <<>> THEN out
    ELSE LET e == Head(elements) IN
         IF e = <<>> \/ e = <<".">> THEN CleanElements(Tail(elements), rooted, out)
         ELSE IF e = <<".", ".">>
         THEN IF out # <<>> /\ out[Len(out)] # <<".", ".">>
              THEN CleanElements(Tail(elements), rooted, SubSeq(out, 1, Len(out) - 1))
              ELSE IF rooted THEN CleanElements(Tail(elements), rooted, out)
              ELSE CleanElements(Tail(elements), rooted, Append(out, e))
         ELSE CleanElements(Tail(elements), rooted, Append(out, e))

\* filepath.Clean
Clean(path) ==
    LET elements == CleanElements(SplitPath(path, <<>>, <<>>), IsRooted(path), <<>>) IN
    IF IsRooted(path) THEN <<Separator>> \o Join(elements, <<Separator>>)
    ELSE IF elements = <<>> THEN <<".">>
    ELSE Join(elements, <<Separator>>)

\* filepath.Join of two elements
PathJoin(dir, name) ==
    IF dir = <<>> /\ name = <<>> THEN <<>>
    ELSE IF dir = <<>> THEN Clean(name)
    ELSE IF name = <<>> THEN Clean(dir)
    ELSE Clean(dir \o <<Separator>> \o name)

\* The index of the last separator of the path, 0 if it has none
RECURSIVE LastSeparator(_, _)
LastSeparator(path, i) ==
    IF i = 0 THEN 0
    ELSE IF path[i] = Separator THEN i ELSE LastSeparator(path, i - 1)

\* filepath.Dir
Dir(path) == Clean(SubSeq(path, 1, LastSeparator(path, Len(path))))

\* The length of the longest common prefix of two sequences of elements
RECURSIVE CommonPrefix(_, _)
CommonPrefix(a, b) ==
    IF a # <<>> /\ b # <<>> /\ Head(a) = Head(b)
    THEN 1 + CommonPrefix(Tail(a), Tail(b))
    ELSE 0

\* filepath.Rel: [path, err]
Rel(basepath, targpath) ==
    LET base   == Clean(basepath)
        targ   == Clean(targpath)
        bElems == IF base = <<".">> THEN <<>>
                  ELSE CleanElements(SplitPath(base, <<>>, <<>>), IsRooted(base), <<>>)
        tElems == IF targ = <<".">> THEN <<>>
                  ELSE CleanElements(SplitPath(targ, <<>>, <<>>), IsRooted(targ), <<>>)
        n      == CommonPrefix(bElems, tElems)
        bRest  == SubSeq(bElems, n + 1, Len(bElems))
        tRest  == SubSeq(tElems, n + 1, Len(tElems))
    IN  IF targ = base THEN [path |-> <<".">>, err |-> FALSE]
        ELSE IF IsRooted(base) # IsRooted(targ) THEN [path |-> <<>>, err |-> TRUE]
        ELSE IF bRest # <<>> /\ Head(bRest) = <<".", ".">> THEN [path |-> <<>>, err |-> TRUE]
        ELSE [path |-> Join([i \in DOMAIN bRest |-> <<".", ".">>] \o tRest, <<Separator>>),
              err |-> FALSE]

\* filepath.ToSlash: the separator is already "/"
ToSlash(path) == [i \in DOMAIN path |-> IF path[i] = Separator THEN "/" ELSE path[i]]

\* The index of the last "." of the name, 0 if it has none
RECURSIVE LastDot(_, _)
LastDot(name, i) ==
    IF i = 0 \/ name[i] = Separator THEN 0
    ELSE IF name[i] = "." THEN i ELSE LastDot(name, i - 1)

\* filepath.Ext: the suffix that starts at the last dot of the name
Ext(name) ==
    LET i == LastDot(name, Len(name)) IN
    IF i = 0 THEN <<>> ELSE SubSeq(name, i, Len(name))

(***************************************************************************)
(* generateMarkdownTable, lines 134-171                                     *)
(***************************************************************************)
Title     == <<"#", " ", "GitHub", " ", "Workflows", " ", "Summary", "\n", "\n">>
HeaderRow == <<"|", " ", "Filename", " ", "|", " ", "Description", " ", "|", " ",
               "Triggers", " ", "|", "\n">>
Separators == <<"|", " ", "---", " ", "|", " ", "---", " ", "|", " ", "---", " ", "|", "\n">>

\* lines 146-158 with the link pointing at filepath.Join(workflowsDir, Filename)
FileLinkJoined(workflow, workflowsDir, outputPath) ==
    <<"[">> \o workflow.Filename \o <<"]", "(">>
    \o ToSlash(PathJoin(workflowsDir, workflow.Filename)) \o <<")">>

\* lines 146-158: "[name](relative path)"
FileLink(workflow, workflowsDir, outputPath) ==
    LET workflowFullPath == PathJoin(workflowsDir, workflow.Filename)
        outputDir        == Dir(outputPath)
        rel              == Rel(outputDir, workflowFullPath)
        relativePath     == IF rel.err THEN workflow.Filename ELSE rel.path
    IN  <<"[">> \o workflow.Filename \o <<"]", "(">> \o ToSlash(relativePath) \o <<")">>

\* lines 160-167 with the description escaped for a markdown table: "\|" for
\* "|", and "-" for an empty description
TableRowEscaped(workflow, workflowsDir, outputPath) ==
    <<"|", " ">> \o FileLink(workflow, workflowsDir, outputPath)
    \o <<" ", "|", " ">>
    \o (IF workflow.Description = <<>> THEN <<"-">>
        ELSE [i \in DOMAIN workflow.Description |->
                 IF workflow.Description[i] = "|" THEN "\\|" ELSE workflow.Description[i]])
    \o <<" ", "|", " ">> \o Join(workflow.Triggers, <<",", " ">>)
    \o <<" ", "|", "\n">>

\* lines 160-167: one row
TableRow(workflow, workflowsDir, outputPath) ==
    <<"|", " ">> \o FileLink(workflow, workflowsDir, outputPath)
    \o <<" ", "|", " ">> \o workflow.Description
    \o <<" ", "|", " ">> \o Join(workflow.Triggers, <<",", " ">>)
    \o <<" ", "|", "\n">>

\* lines 142-168 with the rows written last record first
RECURSIVE TableRowsReversed(_, _, _)
TableRowsReversed(workflows, workflowsDir, outputPath) ==
    IF workflows = <<>> THEN <<>>
    ELSE TableRowsReversed(Tail(workflows), workflowsDir, outputPath)
         \o TableRow(Head(workflows), workflowsDir, outputPath)

\* lines 142-168: one row per record, in the order of the records
RECURSIVE TableRows(_, _, _)
TableRows(workflows, workflowsDir, outputPath) ==
    IF workflows = <<>> THEN <<>>
    ELSE TableRow(Head(workflows), workflowsDir, outputPath)
         \o TableRows(Tail(workflows), workflowsDir, outputPath)

\* lines 134-171 with the title followed by one "\n" only
generateMarkdownTableNoBlank(workflows, workflowsDir, outputPath) ==
    SubSeq(Title, 1, Len(Title) - 1) \o HeaderRow \o Separators
    \o TableRows(workflows, workflowsDir, outputPath)

generateMarkdownTable(workflows, workflowsDir, outputPath) ==
    Title \o HeaderRow \o Separators \o TableRows(workflows, workflowsDir, outputPath)

(***************************************************************************)
(* The directories Generate is run on.                                      *)
(***************************************************************************)
\* The names of the entries, in the order of os.ReadDir (sorted by name)
NameOrder ==
    << <<"a", ".", "yml">>,                 \* a.yml
       <<"b", ".", "yaml">>,                \* b.yaml
       <<"c", ".", "YML">>,                 \* c.YML
       <<"d", ".", "Yaml">>,                \* d.Yaml
       <<"e", ".", "yml", ".", "txt">>,     \* e.yml.txt
       <<"yml">> >>                         \* yml

\* What an entry holds: a directory, or one of these files
Contents ==
    { File("ok", << <<"#", "#", " ", "A">>, BodyLine >>,
           NodeDoc(MappingNode(<<NamePair,
               Pair(Str(OnKey), MappingNode(<<Pair(Str(Push), SubFields(Str(Push))),
                   Pair(Str(PullRequest), SubFields(Str(PullRequest)))>>))>>))),
      File("ok", << BodyLine, <<"#", "#", " ", "A">> >>,
           NodeDoc(MappingNode(<<NamePair,
               Pair(Str(OnKey), SequenceNode(<<Str(Push), Str(PullRequest)>>))>>))),
      File("ok", << <<"#", "#", " ", "A">>, <<"#", "#", "B", " ", "|", "C">>, BodyLine >>,
           NodeDoc(MappingNode(<<Pair(Str(OnKey), Str(Push))>>))),
      File("ok", <<>>, EmptyDoc),
      File("ok", << <<"#", "#", " ", "A">>, BodyLine >>, MalformedDoc),
      File("ok", << BodyLine >>, NodeDoc(SequenceNode(<<Str(Push)>>))),
      File("ok", << BodyLine >>, NodeDoc(Str(Push))),
      File("noread", <<>>, EmptyDoc) }

Entry(name, isDir, file) == [name |-> name, isDir |-> isDir, file |-> file]

EntryKinds == {[isDir |-> FALSE, file |-> f] : f \in Contents}
              \cup {[isDir |-> TRUE, file |-> File("noread", <<>>, EmptyDoc)]}

\* What an entry whose name lacks the two extensions holds (Generate never
\* opens it): a directory, a workflow file, a malformed file
UnreadKinds ==
    {k \in EntryKinds :
        \/ k.isDir
        \/ k.file.perm = "ok" /\ k.file.lines = << <<"#", "#", " ", "A">>, BodyLine >>}

\* A position of NameOrder with what the entry of that name holds
NamedKinds ==
    {p \in (DOMAIN NameOrder) \X EntryKinds :
        \/ Ext(NameOrder[p[1]]) \in {<<".", "yml">>, <<".", "yaml">>}
        \/ p[2] \in UnreadKinds}

\* The listings of at most MaxFiles entries: increasing positions of NameOrder
Listings ==
    {[i \in DOMAIN q |-> Entry(NameOrder[q[i][1]], q[i][2].isDir, q[i][2].file)] :
        q \in {r \in SeqsUpTo(NamedKinds, MaxFiles) :
                  \A i \in 1..(Len(r) - 1) : r[i][1] < r[i + 1][1]}}

\* A file at the output path before the run
OldDocument == <<"old", "\n">>

\* workflowsDir, output, and what is at the output path before the run:
\* "absent" (its directory exists), "file", "isdir" (a directory), "noparent"
\* (its directory does not exist), "denied" (a file that cannot be written)
Scenario(dir, out, state) ==
    [workflowsDir |-> dir, output |-> out,
     disk |-> [state |-> state, data |-> IF state \in {"file", "denied"} THEN OldDocument ELSE <<>>]]

Scenarios ==
    { Scenario(<<"test", "/", "workflows">>, <<"test", "/", "output.md">>, "absent"),
      Scenario(<<"test", "/", "workflows">>, <<"test", "/", "output.md">>, "file"),
      Scenario(<<".">>, <<".", "/", "workflows.md">>, "file"),
      Scenario(<<"/", "w">>, <<"out.md">>, "absent"),
      Scenario(<<"wf">>, <<"/", "non", "/", "existent", "/", "dir", "/", "output.md">>, "noparent"),
      Scenario(<<"wf">>, <<"docs", "/", "unwritable">>, "isdir"),
      Scenario(<<"wf">>, <<"docs", "/", "out.md">>, "denied") }

(***************************************************************************)
(* Generate, lines 22-58                                                    *)
(***************************************************************************)
\* strings.ToLower on the atoms of the names
ToLower(str) ==
    [i \in DOMAIN str |-> CASE str[i] = "YML" -> "yml" [] str[i] = "Yaml" -> "yaml"
                             [] OTHER -> str[i]]

\* line 35 comparing the extension without regard to case
IsWorkflowFileAnyCase(entry) ==
    LET ext == ToLower(Ext(entry.name)) IN
    ~entry.isDir /\ (ext = <<".", "yml">> \/ ext = <<".", "yaml">>)

\* line 35: the entry is a workflow file
IsWorkflowFile(entry) ==
    LET ext == Ext(entry.name) IN
    ~entry.isDir /\ (ext = <<".", "yml">> \/ ext = <<".", "yaml">>)

\* line 39
ParseDiagnostic(name, err) ==
    <<"Error parsing workflow file", " ">> \o name \o <<":", " ", err, "\n">>

\* line 51: os.WriteFile fails
WriteFails(disk) == disk.state \in {"isdir", "noparent", "denied"}

VARIABLES
    workflowsDir,   \* Generate: the directory to list
    output,         \* Generate: the path of the output file
    dirState,       \* "ok", or why os.ReadDir fails: "notexist", "notdir", "denied",
                    \* "ioerror" (the read fails after some entries were read)
    listing,        \* the entries os.ReadDir returns
    disk,           \* what is at the output path: [state, data]
    diskBefore,     \* what was at the output path when Generate was called
    pc,             \* Generate: "ReadDir", "Loop", "Write", "Done" ("Idle": not run)
    index,          \* Generate: the position of the loop of line 33 in files
    workflows,      \* Generate: the records collected
    markdownTable,  \* Generate: the rendered table
    ret,            \* Generate: "none", "nil", "errReadDir", "errWrite"
    stdout,         \* what fmt.Printf and fmt.Println have printed
    parsed,         \* the names parseWorkflowFile was called on, in order
    pfile,          \* parseWorkflowFile: the file at filePath
    ppc,            \* parseWorkflowFile: "call", "return" ("idle": not run)
    presult         \* parseWorkflowFile (either version): the [workflow, err] returned

genVars == <<workflowsDir, output, dirState, listing, disk, diskBefore, pc, index, workflows,
             markdownTable, ret, stdout, parsed>>
parseVars == <<pfile, ppc, presult>>
vars == <<genVars, parseVars>>

NoResult == [workflow |-> WorkflowInfo(<<>>, <<>>, <<>>), err |-> "none"]

InitParse ==
    /\ \E lines \in SeqsUpTo(LineSet, MaxLines) :
         \E doc \in DocsOf(lines) :
           \E perm \in {"ok", "noread", "noopen"} :
             /\ perm # "ok" => lines = <<>> /\ doc = EmptyDoc
             /\ pfile = File(perm, lines, doc)
    /\ ppc = "call"
    /\ presult = NoResult
    /\ workflowsDir = <<>> /\ output = <<>> /\ dirState = "ok" /\ listing = <<>>
    /\ disk = [state |-> "absent", data |-> <<>>] /\ diskBefore = disk
    /\ pc = "Idle" /\ index = 0 /\ workflows = <<>> /\ markdownTable = <<>>
    /\ ret = "none" /\ stdout = <<>> /\ parsed = <<>>

\* One call of parseWorkflowFile
ParseCall ==
    /\ ppc = "call"
    /\ \E r \in parseWorkflowFile(pfile) : presult' = r
    /\ ppc' = "return"
    /\ UNCHANGED <<pfile, genVars>>

NextParse == ParseCall

\* One call of the earlier parseWorkflowFile (src/README.md, lines 98-184)
ParseCallFlags ==
    /\ ppc = "call"
    /\ presult' = parseWorkflowFileFlags(pfile)
    /\ ppc' = "return"
    /\ UNCHANGED <<pfile, genVars>>

NextParseFlags == ParseCallFlags

\* Calls of the earlier parseWorkflowFile on the same files
SpecParseFlags == InitParse /\ [][NextParseFlags]_vars

\* Calls of either version of parseWorkflowFile
SpecParseBoth == InitParse /\ [][NextParse \/ NextParseFlags]_vars

SpecParse == InitParse /\ [][NextParse]_vars

Init ==
    /\ \E sc \in Scenarios :
         /\ workflowsDir = sc.workflowsDir
         /\ output = sc.output
         /\ disk = sc.disk
         /\ diskBefore = sc.disk
    /\ \/ dirState \in {"ok", "ioerror"} /\ listing \in Listings
       \/ dirState \in {"notexist", "notdir", "denied"} /\ listing = <<>>
    /\ pc = "ReadDir" /\ index = 0 /\ workflows = <<>> /\ markdownTable = <<>>
    /\ ret = "none" /\ stdout = <<>> /\ parsed = <<>>
    /\ pfile = File("ok", <<>>, EmptyDoc) /\ ppc = "idle" /\ presult = NoResult

\* lines 24-27 with the error of os.ReadDir ignored
ReadDirErrorIgnored ==
    /\ pc = "ReadDir"
    /\ dirState # "ok"
    /\ index' = 1
    /\ pc' = "Loop"
    /\ UNCHANGED <<workflowsDir, output, dirState, listing, diskBefore, disk, workflows,
                   markdownTable, ret, stdout, parsed, parseVars>>

\* lines 24-27: os.ReadDir fails
ReadDirFails ==
    /\ pc = "ReadDir"
    /\ dirState # "ok"
    /\ ret' = "errReadDir"
    /\ pc' = "Done"
    /\ UNCHANGED <<workflowsDir, output, dirState, listing, diskBefore, disk, index, workflows,
                   markdownTable, stdout, parsed, parseVars>>

\* lines 24-30: os.ReadDir succeeds
ReadDirOK ==
    /\ pc = "ReadDir"
    /\ dirState = "ok"
    /\ index' = 1
    /\ pc' = "Loop"
    /\ UNCHANGED <<workflowsDir, output, dirState, listing, diskBefore, disk, workflows,
                   markdownTable, ret, stdout, parsed, parseVars>>

\* lines 33-35, 44: an entry that is a directory or has another extension
SkipEntry ==
    /\ pc = "Loop"
    /\ index <= Len(listing)
    /\ ~IsWorkflowFile(listing[index])
    /\ index' = index + 1
    /\ UNCHANGED <<workflowsDir, output, dirState, listing, diskBefore, disk, pc, workflows,
                   markdownTable, ret, stdout, parsed, parseVars>>

\* lines 33-41 with `break` in place of `continue`
ParseErrorBreak ==
    /\ pc = "Loop"
    /\ index <= Len(listing)
    /\ IsWorkflowFile(listing[index])
    /\ \E r \in parseWorkflowFile(listing[index].file) :
         /\ r.err # "nil"
         /\ stdout' = Append(stdout, ParseDiagnostic(listing[index].name, r.err))
    /\ parsed' = Append(parsed, listing[index].name)
    /\ index' = Len(listing) + 1
    /\ UNCHANGED <<workflowsDir, output, dirState, listing, diskBefore, disk, pc, workflows,
                   markdownTable, ret, parseVars>>

\* lines 33-41 with the failed file kept as a row that shows the error
ParseErrorRow ==
    /\ pc = "Loop"
    /\ index <= Len(listing)
    /\ IsWorkflowFile(listing[index])
    /\ \E r \in parseWorkflowFile(listing[index].file) :
         /\ r.err # "nil"
         /\ stdout' = Append(stdout, ParseDiagnostic(listing[index].name, r.err))
         /\ workflows' = Append(workflows,
                WorkflowInfo(listing[index].name, <<"Error parsing workflow file">>, <<>>))
    /\ parsed' = Append(parsed, listing[index].name)
    /\ index' = index + 1
    /\ UNCHANGED <<workflowsDir, output, dirState, listing, diskBefore, disk, pc,
                   markdownTable, ret, parseVars>>

\* lines 33-41: parseWorkflowFile returns an error
ParseError ==
    /\ pc = "Loop"
    /\ index <= Len(listing)
    /\ IsWorkflowFile(listing[index])
    /\ \E r \in parseWorkflowFile(listing[index].file) :
         /\ r.err # "nil"
         /\ stdout' = Append(stdout, ParseDiagnostic(listing[index].name, r.err))
    /\ parsed' = Append(parsed, listing[index].name)
    /\ index' = index + 1
    /\ UNCHANGED <<workflowsDir, output, dirState, listing, diskBefore, disk, pc, workflows,
                   markdownTable, ret, parseVars>>

\* lines 33-43 with the path given to parseWorkflowFile kept as the Filename
ParseOKFullPath ==
    /\ pc = "Loop"
    /\ index <= Len(listing)
    /\ IsWorkflowFile(listing[index])
    /\ \E r \in parseWorkflowFile(listing[index].file) :
         /\ r.err = "nil"
         /\ workflows' = Append(workflows,
                [r.workflow EXCEPT !.Filename = PathJoin(workflowsDir, listing[index].name)])
    /\ parsed' = Append(parsed, listing[index].name)
    /\ index' = index + 1
    /\ UNCHANGED <<workflowsDir, output, dirState, listing, diskBefore, disk, pc, markdownTable,
                   ret, stdout, parseVars>>

\* lines 33-43: parseWorkflowFile returns a record
ParseOK ==
    /\ pc = "Loop"
    /\ index <= Len(listing)
    /\ IsWorkflowFile(listing[index])
    /\ \E r \in parseWorkflowFile(listing[index].file) :
         /\ r.err = "nil"
         /\ workflows' = Append(workflows,
                [r.workflow EXCEPT !.Filename = listing[index].name])
    /\ parsed' = Append(parsed, listing[index].name)
    /\ index' = index + 1
    /\ UNCHANGED <<workflowsDir, output, dirState, listing, diskBefore, disk, pc, markdownTable,
                   ret, stdout, parseVars>>

\* lines 47-48 reached from inside the loop, before its last entry
RenderEarly ==
    /\ pc = "Loop"
    /\ markdownTable' = generateMarkdownTable(workflows, workflowsDir, output)
    /\ pc' = "Write"
    /\ UNCHANGED <<workflowsDir, output, dirState, listing, diskBefore, disk, index, workflows,
                   ret, stdout, parsed, parseVars>>

\* lines 47-48: after the last entry
Render ==
    /\ pc = "Loop"
    /\ index > Len(listing)
    /\ markdownTable' = generateMarkdownTable(workflows, workflowsDir, output)
    /\ pc' = "Write"
    /\ UNCHANGED <<workflowsDir, output, dirState, listing, diskBefore, disk, index, workflows,
                   ret, stdout, parsed, parseVars>>

\* lines 51-54 with the error of os.WriteFile dropped
WriteErrorDropped ==
    /\ pc = "Write"
    /\ WriteFails(disk)
    /\ ret' = "nil"
    /\ pc' = "Done"
    /\ UNCHANGED <<workflowsDir, output, dirState, listing, diskBefore, disk, index, workflows,
                   markdownTable, stdout, parsed, parseVars>>

\* lines 51-54: os.WriteFile fails
WriteError ==
    /\ pc = "Write"
    /\ WriteFails(disk)
    /\ ret' = "errWrite"
    /\ pc' = "Done"
    /\ UNCHANGED <<workflowsDir, output, dirState, listing, diskBefore, disk, index, workflows,
                   markdownTable, stdout, parsed, parseVars>>

\* lines 51-57: os.WriteFile succeeds
WriteOK ==
    /\ pc = "Write"
    /\ ~WriteFails(disk)
    /\ disk' = [state |-> "file", data |-> markdownTable]
    /\ stdout' = Append(stdout, <<"Successfully generated", " ">> \o output \o <<"\n">>)
    /\ ret' = "nil"
    /\ pc' = "Done"
    /\ UNCHANGED <<workflowsDir, output, dirState, listing, diskBefore, index, workflows,
                   markdownTable, parsed, parseVars>>

Next ==
    \/ ReadDirFails
    \/ ReadDirOK
    \/ SkipEntry
    \/ ParseError
    \/ ParseOK
    \/ Render
    \/ WriteError
    \/ WriteOK

Spec == Init /\ [][Next]_vars

\* Runs of Generate and calls of parseWorkflowFile
SpecAll == (Init \/ InitParse) /\ [][Next \/ NextParse]_vars

(***************************************************************************)
(* Definitions used to state the properties                                 *)
(***************************************************************************)
\* The pieces of a text between the occurrences of one atom
RECURSIVE SplitAt(_, _, _, _)
SplitAt(text, sep, piece, pieces) ==
    IF text = <<>> THEN Append(pieces, piece)
    ELSE IF Head(text) = sep
         THEN SplitAt(Tail(text), sep, <<>>, Append(pieces, piece))
         ELSE SplitAt(Tail(text), sep, Append(piece, Head(text)), pieces)

\* The lines of a document: its pieces between the "\n", the last one being
\* what follows the last "\n"
DocumentLines(document) ==
    LET ends     == {i \in DOMAIN document : document[i] = "\n"} \cup {Len(document) + 1}
        before(e) == {j \in ends : j < e}
        endOf(k) == CHOOSE e \in ends : Cardinality(before(e)) = k - 1
        startOf(k) == IF k = 1 THEN 1 ELSE endOf(k - 1) + 1
    IN  [k \in 1..Cardinality(ends) |-> SubSeq(document, startOf(k), endOf(k) - 1)]

\* The document has a table row whose filename cell shows this name: a line
\* that starts with "| [name]"
HasRowFor(document, name) ==
    LET cell == <<"|", " ", "[">> \o name \o <<"]">> IN
    \E i \in DOMAIN document :
        /\ i = 1 \/ document[i - 1] = "\n"
        /\ i + Len(cell) - 1 <= Len(document)
        /\ SubSeq(document, i, i + Len(cell) - 1) = cell

\* The data rows of a document: its lines after the title, the blank line, the
\* header and the separators, without the empty piece after the last "\n"
DataRows(document) ==
    LET all == DocumentLines(document) IN SubSeq(all, 5, Len(all) - 1)

\* The number of data rows of a document
NumDataRows(document) == Cardinality({i \in DOMAIN document : document[i] = "\n"}) - 4

\* The extension of a name: from its last dot on
NameExtension(name) ==
    LET dots == {i \in DOMAIN name : name[i] = "."} IN
    IF dots = {} THEN <<>>
    ELSE SubSeq(name, CHOOSE i \in dots : \A j \in dots : j <= i, Len(name))

HasYamlExtension(name) == NameExtension(name) \in {<<".", "yml">>, <<".", "yaml">>}

\* The entry is a candidate: a file with one of the two extensions
IsCandidate(entry) == ~entry.isDir /\ HasYamlExtension(entry.name)

\* The file can be read and holds well-formed YAML with a mapping (or nothing)
\* at its root
Parses(file) == \E r \in parseWorkflowFile(file) : r.err = "nil"

\* Two lists hold the same elements, each as often
SameBag(a, b) ==
    /\ Len(a) = Len(b)
    /\ \A x \in Range(a) \cup Range(b) :
         Cardinality({i \in DOMAIN a : a[i] = x}) = Cardinality({i \in DOMAIN b : b[i] = x})

\* The record is one that parseWorkflowFile gives for the file alone, under
\* this name
RecordOf(record, entry) ==
    \E r \in parseWorkflowFile(entry.file) :
        /\ r.err = "nil"
        /\ record.Filename = entry.name
        /\ record.Description = r.workflow.Description
        /\ SameBag(record.Triggers, r.workflow.Triggers)

\* The run has written the output file
Written == pc = "Done" /\ ret = "nil"

(***************************************************************************)
(* C1: an entry whose extension is not exactly ".yml" or ".yaml" (".YML"   *)
(* and ".Yaml" included) is never parsed, never gets a record and never    *)
(* gets a row in the rendered table or in the file written, whatever it    *)
(* holds.                                                                   *)
(***************************************************************************)
C1_OtherExtensionsNoRow ==
    \A i \in DOMAIN listing :
        ~HasYamlExtension(listing[i].name) =>
            /\ \A k \in DOMAIN parsed : parsed[k] # listing[i].name
            /\ \A k \in DOMAIN workflows : workflows[k].Filename # listing[i].name
            /\ ~HasRowFor(markdownTable, listing[i].name)
            /\ ~HasRowFor(disk.data, listing[i].name)

\* The file is written with a row, and the directory holds a parsable file
\* named c.YML.
C1_Witness ==
    /\ Written
    /\ workflows # <<>>
    /\ \E i \in DOMAIN listing :
         /\ listing[i].name = <<"c", ".", "YML">>
         /\ ~listing[i].isDir
         /\ Parses(listing[i].file)

(***************************************************************************)
(* C2: when a candidate of the directory is malformed, the records and the *)
(* rows written are those of the candidates that parse, in listing order,  *)
(* each with the filename, description and triggers its file gives alone.  *)
(***************************************************************************)
IsMalformed(entry) == IsCandidate(entry) /\ entry.file.perm = "ok" /\ ~Parses(entry.file)
GoodEntry(entry) == IsCandidate(entry) /\ Parses(entry.file)

C2_SiblingsOfMalformedKept ==
    (Written /\ \E i \in DOMAIN listing : IsMalformed(listing[i])) =>
        LET good == SelectSeq(listing, GoodEntry) IN
        /\ Len(workflows) = Len(good)
        /\ \A k \in DOMAIN good : RecordOf(workflows[k], good[k])
        /\ LET rows == DataRows(disk.data) IN
           /\ Len(rows) = Len(good)
           /\ \A k \in DOMAIN good :
                rows[k] \o <<"\n">> = TableRow(workflows[k], workflowsDir, output)

\* The file is written; the first entry is malformed and a later one parses.
C2_Witness ==
    /\ Written
    /\ Len(listing) >= 2
    /\ IsMalformed(listing[1])
    /\ GoodEntry(listing[Len(listing)])
    /\ Len(workflows) = 1

(***************************************************************************)
(* C3: a candidate for which parseWorkflowFile returns an error gets no    *)
(* record and no row, the diagnostic goes to the standard output and not   *)
(* into the document, every candidate is still processed, and when the     *)
(* output path is writable the document is written and Generate returns    *)
(* nil, even if every candidate fails.                                      *)
(***************************************************************************)
FailsToParse(entry) == IsCandidate(entry) /\ ~Parses(entry.file)

C3_FailedFileOmitted ==
    (dirState = "ok" /\ pc \in {"Write", "Done"}) =>
        /\ \A i \in DOMAIN listing :
             FailsToParse(listing[i]) =>
                /\ \A k \in DOMAIN workflows : workflows[k].Filename # listing[i].name
                /\ ~HasRowFor(markdownTable, listing[i].name)
                /\ ~HasRowFor(disk.data, listing[i].name)
                /\ \E k \in DOMAIN stdout :
                     HasPrefix(stdout[k], <<"Error parsing workflow file", " ">> \o listing[i].name)
        /\ \A k \in DOMAIN markdownTable : markdownTable[k] # "Error parsing workflow file"
        /\ \A k \in DOMAIN disk.data : disk.data[k] # "Error parsing workflow file"
        /\ LET candidates == SelectSeq(listing, IsCandidate) IN
           parsed = [k \in DOMAIN candidates |-> candidates[k].name]
        /\ NumDataRows(markdownTable) = Len(SelectSeq(listing, GoodEntry))
        /\ (pc = "Done" /\ ~WriteFails(diskBefore)) =>
              ret = "nil" /\ disk = [state |-> "file", data |-> markdownTable]

\* The file is written though both candidates of the directory failed, one
\* unreadable and one malformed.
C3_Witness ==
    /\ Written
    /\ Len(listing) >= 2
    /\ \A i \in DOMAIN listing : FailsToParse(listing[i])
    /\ \E i \in DOMAIN listing : listing[i].file.perm = "noread"
    /\ \E i \in DOMAIN listing : listing[i].file.doc = MalformedDoc

(***************************************************************************)
(* C4: when the directory cannot be listed, Generate returns the error of  *)
(* os.ReadDir, calls parseWorkflowFile on no file, renders nothing and     *)
(* leaves the output path as it was.                                        *)
(***************************************************************************)
C4_UnlistableDirectoryWritesNothing ==
    dirState # "ok" =>
        /\ pc \in {"ReadDir", "Done"}
        /\ pc = "Done" => ret = "errReadDir"
        /\ parsed = <<>>
        /\ workflows = <<>>
        /\ markdownTable = <<>>
        /\ disk = diskBefore

\* Generate has returned on a directory whose read failed after a candidate
\* was read, with a file at the output path.
C4_Witness ==
    /\ dirState = "ioerror"
    /\ pc = "Done"
    /\ \E i \in DOMAIN listing : GoodEntry(listing[i])
    /\ disk.state = "file"

(***************************************************************************)
(* C5: when the output file cannot be written, Generate returns the error  *)
(* of os.WriteFile and never nil, also when the directory was listed and   *)
(* every candidate parsed.                                                  *)
(***************************************************************************)
C5_UnwritableOutputIsAnError ==
    (WriteFails(diskBefore) /\ dirState = "ok") =>
        /\ ret # "nil"
        /\ pc = "Done" => ret = "errWrite"
        /\ disk = diskBefore

\* Generate has returned; the output path is a directory, and the two
\* candidates of the directory both parsed.
C5_Witness ==
    /\ pc = "Done"
    /\ diskBefore.state = "isdir"
    /\ dirState = "ok"
    /\ Len(workflows) = 2
    /\ \A i \in DOMAIN listing : GoodEntry(listing[i])

(***************************************************************************)
(* Definitions used to state the properties of parseWorkflowFile            *)
(***************************************************************************)
Returned == ppc = "return" /\ pfile.perm = "ok"

\* The line begins with "##" once the whitespace before it is removed
StartsWithMarker(line) ==
    \E i \in 1..(Len(line) - 1) :
        /\ line[i] = "#" /\ line[i + 1] = "#"
        /\ \A j \in 1..(i - 1) : line[j] \in {" ", "\t"}

\* The number of lines at the start of the file that begin with "##"
LeadingMarked(lines) ==
    CHOOSE n \in 0..Len(lines) :
        /\ \A i \in 1..n : StartsWithMarker(lines[i])
        /\ n < Len(lines) => ~StartsWithMarker(lines[n + 1])

\* The content of a line that begins with "##": what follows the marker,
\* from its first to its last character that is not whitespace
Stripped(line) ==
    LET m    == CHOOSE i \in DOMAIN line : line[i] = "#"
        rest == SubSeq(line, m + 2, Len(line))
        keep == {i \in DOMAIN rest : rest[i] \notin {" ", "\t"}}
    IN  IF keep = {} THEN <<>>
        ELSE SubSeq(rest, CHOOSE i \in keep : \A j \in keep : i <= j,
                          CHOOSE i \in keep : \A j \in keep : j <= i)

\* The value of the top-level `on` field of a document whose root is a mapping
\* that has the field
HasOn(doc) ==
    /\ doc.state = "node" /\ doc.root.kind = "mapping"
    /\ \E p \in Range(doc.root.content) : p.key.text = <<"on">>
OnNode(doc) == (CHOOSE p \in Range(doc.root.content) : p.key.text = <<"on">>).value

\* The document is well formed and has no top-level `on` field: no node at
\* all, a null, or a mapping without the key
ParsesWithoutOn(doc) ==
    \/ doc.state = "empty"
    \/ doc.state = "node" /\ doc.root.kind = "scalar" /\ doc.root.tag = "null"
    \/ /\ doc.state = "node" /\ doc.root.kind = "mapping"
       /\ \A p \in Range(doc.root.content) : p.key.text # <<"on">>

(***************************************************************************)
(* C6: when the first line of the file, trimmed, does not begin with "##", *)
(* the description is empty, whatever the later lines are.                  *)
(***************************************************************************)
C6_FirstLineUnmarkedNoDescription ==
    (Returned /\ pfile.lines # <<>> /\ ~StartsWithMarker(pfile.lines[1])) =>
        presult.workflow.Description = <<>>

\* A file has returned a record; its first line is not marked and a later
\* line is.
C6_Witness ==
    /\ Returned
    /\ presult.err = "nil"
    /\ Len(pfile.lines) >= 2
    /\ ~StartsWithMarker(pfile.lines[1])
    /\ \E i \in 2..Len(pfile.lines) : StartsWithMarker(pfile.lines[i])

(***************************************************************************)
(* C7: when the file starts with k >= 1 lines that begin with "##", the    *)
(* description is their k contents, in order, joined by "<br>"; when it    *)
(* starts with none, the description is empty and that is no error.         *)
(***************************************************************************)
C7_DescriptionJoinsLeadingLines ==
    Returned =>
        LET k == LeadingMarked(pfile.lines) IN
        IF k = 0
        THEN /\ presult.workflow.Description = <<>>
             /\ presult.err = "nil" <=> ~UnmarshalFails(pfile.doc)
        ELSE SplitAt(presult.workflow.Description, "<br>", <<>>, <<>>)
                = [i \in 1..k |-> Stripped(pfile.lines[i])]

\* The file "## A", " ##  B |C", body has given "A<br>B |C".
C7_Witness ==
    /\ Returned
    /\ presult.err = "nil"
    /\ LeadingMarked(pfile.lines) = 2
    /\ Len(pfile.lines) = 3
    /\ presult.workflow.Description = <<"A", "<br>", "B", " ", "|", "C">>

(***************************************************************************)
(* C8: for a file that parses, the set of the triggers is {s} when `on` is *)
(* the string s, the strings among its elements when `on` is a sequence,   *)
(* and the names of its keys when `on` is a mapping.                        *)
(***************************************************************************)
C8_TriggersAreTheNamesInOn ==
    (Returned /\ presult.err = "nil" /\ HasOn(pfile.doc)) =>
        LET on == OnNode(pfile.doc) IN
        CASE on.kind = "scalar" /\ on.tag = "str" ->
               Range(presult.workflow.Triggers) = {on.text}
          [] on.kind = "sequence" ->
               Range(presult.workflow.Triggers) =
                   {x.text : x \in {y \in Range(on.content) : y.kind = "scalar" /\ y.tag = "str"}}
          [] on.kind = "mapping" ->
               Range(presult.workflow.Triggers) = {p.key.text : p \in Range(on.content)}
          [] OTHER -> TRUE

(***************************************************************************)
(* C9: when `on` is a mapping, the i-th trigger of the record is the i-th  *)
(* key of the mapping as the file writes it.  (Stated for the mappings     *)
(* whose keys are all strings; the others are the case of C8.)              *)
(***************************************************************************)
C9_MappingTriggersInSourceOrder ==
    (Returned /\ presult.err = "nil" /\ HasOn(pfile.doc)
        /\ OnNode(pfile.doc).kind = "mapping"
        /\ \A p \in Range(OnNode(pfile.doc).content) : p.key.tag = "str") =>
        presult.workflow.Triggers =
            [i \in DOMAIN OnNode(pfile.doc).content |-> OnNode(pfile.doc).content[i].key.text]

(***************************************************************************)
(* C10: a well-formed document without a top-level `on` field gives a      *)
(* record with no trigger and no error, and in a run of Generate the file  *)
(* has its record and its row, with an empty Triggers cell.                 *)
(***************************************************************************)
C10_MissingOnIsNoError ==
    /\ (Returned /\ ParsesWithoutOn(pfile.doc)) =>
          presult.err = "nil" /\ presult.workflow.Triggers = <<>>
    /\ Written =>
          \A i \in DOMAIN listing :
              (IsCandidate(listing[i]) /\ listing[i].file.perm = "ok"
                  /\ ParsesWithoutOn(listing[i].file.doc)) =>
                  /\ \E k \in DOMAIN workflows :
                       /\ workflows[k].Filename = listing[i].name
                       /\ workflows[k].Triggers = <<>>
                       /\ LET row == DataRows(disk.data)[k] IN
                          /\ HasPrefix(row, <<"|", " ", "[">> \o listing[i].name \o <<"]">>)
                          /\ SubSeq(row, Len(row) - 3, Len(row)) = <<"|", " ", " ", "|">>

\* A file that holds only comment lines has returned a record.
C10_Witness ==
    /\ Returned
    /\ presult.err = "nil"
    /\ pfile.lines # <<>>
    /\ pfile.doc = EmptyDoc
    /\ presult.workflow.Triggers = <<>>

(***************************************************************************)
(* C11: when the directory is listed and holds no candidate (it is empty,  *)
(* or holds only directories and files with other extensions) and the      *)
(* output path is writable, Generate returns nil and the document written  *)
(* is exactly the title line, one blank line, the header row and the       *)
(* separator row, each ended by a newline, with no data row.                *)
(***************************************************************************)
C11_NoCandidateGivesHeaderOnly ==
    (pc = "Done" /\ dirState = "ok" /\ ~WriteFails(diskBefore)
        /\ \A i \in DOMAIN listing : ~IsCandidate(listing[i])) =>
        /\ ret = "nil"
        /\ disk.state = "file"
        /\ DocumentLines(disk.data) =
              << <<"#", " ", "GitHub", " ", "Workflows", " ", "Summary">>,
                 <<>>,
                 <<"|", " ", "Filename", " ", "|", " ", "Description", " ", "|", " ",
                   "Triggers", " ", "|">>,
                 <<"|", " ", "---", " ", "|", " ", "---", " ", "|", " ", "---", " ", "|">>,
                 <<>> >>

\* Generate has written over an older file, on a directory of two entries, none
\* a candidate, one of them a file that would parse.
C11_Witness ==
    /\ Written
    /\ Len(listing) = 2
    /\ \A i \in DOMAIN listing : ~IsCandidate(listing[i])
    /\ \E i \in DOMAIN listing : ~listing[i].isDir /\ Parses(listing[i].file)
    /\ diskBefore.state = "file"

(***************************************************************************)
(* C12: the records are the candidates of the listing that parse, one      *)
(* each, in listing order (while the loop runs: those among the entries    *)
(* already passed); the table has one data row per record, the k-th row    *)
(* showing the k-th record, and the file written is that table.             *)
(***************************************************************************)
C12_RowsAreParsedCandidatesInOrder ==
    /\ (dirState = "ok" /\ pc = "Loop") =>
          LET good == SelectSeq(SubSeq(listing, 1, index - 1), GoodEntry) IN
          [k \in DOMAIN workflows |-> workflows[k].Filename]
              = [k \in DOMAIN good |-> good[k].name]
    /\ (dirState = "ok" /\ pc \in {"Write", "Done"}) =>
          LET good == SelectSeq(listing, GoodEntry)
              rows == DataRows(markdownTable)
          IN  /\ [k \in DOMAIN workflows |-> workflows[k].Filename]
                    = [k \in DOMAIN good |-> good[k].name]
              /\ Len(rows) = Len(good)
              /\ \A k \in DOMAIN rows :
                    HasPrefix(rows[k], <<"|", " ", "[">> \o good[k].name \o <<"]", "(">>)
              /\ Written => disk.data = markdownTable

\* The file is written for a directory of two candidates that parse.
C12_Witness ==
    /\ Written
    /\ Len(listing) = 2
    /\ \A i \in DOMAIN listing : GoodEntry(listing[i])
    /\ Len(workflows) = 2
    /\ NumDataRows(disk.data) = 2

(***************************************************************************)
(* Definitions used to state the properties of the links                    *)
(***************************************************************************)
\* The elements of a path that name something: not empty and not "."
NamedElement(element) == element # <<>> /\ element # <<".">>
PathElements(path) == SelectSeq(SplitAt(path, "/", <<>>, <<>>), NamedElement)

\* Where one arrives from a directory (its elements) by following the
\* elements of a relative path, ".." leading to the parent
RECURSIVE Walk(_, _)
Walk(from, steps) ==
    IF steps = <<>> THEN from
    ELSE IF Head(steps) = <<".", ".">>
         THEN Walk(SubSeq(from, 1, Len(from) - 1), Tail(steps))
         ELSE Walk(Append(from, Head(steps)), Tail(steps))

\* The target of the link of a row: what stands between "(" and ")"
LinkTarget(row) ==
    LET open  == CHOOSE i \in DOMAIN row : row[i] = "(" /\ \A j \in 1..(i - 1) : row[j] # "("
        close == CHOOSE i \in DOMAIN row : row[i] = ")" /\ \A j \in 1..(i - 1) : row[j] # ")"
    IN  SubSeq(row, open + 1, close - 1)

(***************************************************************************)
(* C13: the filename cell of every row is "[name](target)" where name is   *)
(* the filename of the record and target, written with forward slashes, is *)
(* a relative path that leads from the directory of the output file to     *)
(* <workflowsDir>/<name>: "workflows/<name>" for the directory             *)
(* test/workflows and the output test/output.md.  When no relative path    *)
(* exists (one of the two paths is absolute and the other is not), target  *)
(* is the bare filename.  (Stated on the table Generate holds when it      *)
(* returns, written or not.)                                                *)
(***************************************************************************)
C13_LinkIsRelativeToOutputDirectory ==
    (dirState = "ok" /\ pc = "Done") =>
        LET rows      == DataRows(markdownTable)
            outputDir == LET e == PathElements(output) IN SubSeq(e, 1, Len(e) - 1)
        IN  /\ Len(rows) = Len(workflows)
            /\ \A k \in DOMAIN rows :
                  LET name   == workflows[k].Filename
                      target == LinkTarget(rows[k])
                  IN  /\ HasPrefix(rows[k], <<"|", " ", "[">> \o name \o <<"]", "(">>
                                              \o target \o <<")", " ", "|", " ">>)
                      /\ \A i \in DOMAIN target : target[i] # "\\"
                      /\ IF (Head(output) = "/") = (Head(workflowsDir) = "/")
                         THEN /\ Head(target) # "/"
                              /\ Walk(outputDir, PathElements(target))
                                    = Append(PathElements(workflowsDir), name)
                         ELSE target = name
                      /\ (workflowsDir = <<"test", "/", "workflows">>
                             /\ output = <<"test", "/", "output.md">>) =>
                            target = <<"workflows", "/">> \o name

\* The table is written to test/output.md for the directory test/workflows
\* and links to workflows/a.yml.
C13_Witness ==
    /\ Written
    /\ workflowsDir = <<"test", "/", "workflows">>
    /\ output = <<"test", "/", "output.md">>
    /\ workflows # <<>>
    /\ HasPrefix(DataRows(disk.data)[1],
                 <<"|", " ", "[", "a", ".", "yml", "]", "(", "workflows", "/", "a", ".", "yml", ")">>)

C15_TriggersHaveNoDuplicate ==
    (Returned /\ presult.err = "nil") =>
        \A i, j \in DOMAIN presult.workflow.Triggers :
            presult.workflow.Triggers[i] = presult.workflow.Triggers[j] => i = j

(***************************************************************************)
(* C16: the description block ends at the first line that does not start   *)
(* with "##": the description of the file is the one of its leading "##"   *)
(* lines alone, whatever follows them, and it has as many pieces as there  *)
(* are leading "##" lines, so no later line adds one.                       *)
(***************************************************************************)
C16_DescriptionEndsAtFirstGap ==
    Returned =>
        LET k   == LeadingMarked(pfile.lines)
            brs == Cardinality({i \in DOMAIN presult.workflow.Description :
                                   presult.workflow.Description[i] = "<br>"})
        IN  /\ presult.workflow.Description = ExtractDescription(SubSeq(pfile.lines, 1, k))
            /\ brs = IF k = 0 THEN 0 ELSE k - 1
            /\ k = 0 => presult.workflow.Description = <<>>

\* A file of three lines has returned: the first starts with "##", the second
\* does not, the third does again; the description is the content of the first.
C16_Witness ==
    /\ Returned
    /\ presult.err = "nil"
    /\ Len(pfile.lines) = 3
    /\ StartsWithMarker(pfile.lines[1])
    /\ ~StartsWithMarker(pfile.lines[2])
    /\ StartsWithMarker(pfile.lines[3])
    /\ Stripped(pfile.lines[3]) # <<>>
    /\ presult.workflow.Description = Stripped(pfile.lines[1])

(***************************************************************************)
(* C17: when `on` is a sequence, the triggers are the texts of its string  *)
(* elements, in the order of the file; the elements that are no strings (a *)
(* number, a boolean, a null, a nested mapping or sequence) are passed     *)
(* over and cause no error.                                                 *)
(***************************************************************************)
IsStringScalar(node) == node.kind = "scalar" /\ node.tag = "str"

C17_SequenceKeepsItsStringsInOrder ==
    (Returned /\ HasOn(pfile.doc) /\ OnNode(pfile.doc).kind = "sequence") =>
        LET strings == SelectSeq(OnNode(pfile.doc).content, IsStringScalar) IN
        /\ presult.err = "nil"
        /\ presult.workflow.Triggers = [i \in DOMAIN strings |-> strings[i].text]

\* `on` is a sequence of two elements, the first not a scalar at all and the
\* second a string; the record has the second as its only trigger.
C17_Witness ==
    /\ Returned
    /\ presult.err = "nil"
    /\ HasOn(pfile.doc)
    /\ OnNode(pfile.doc).kind = "sequence"
    /\ Len(OnNode(pfile.doc).content) = 2
    /\ OnNode(pfile.doc).content[1].kind # "scalar"
    /\ IsStringScalar(OnNode(pfile.doc).content[2])
    /\ presult.workflow.Triggers = <<OnNode(pfile.doc).content[2].text>>

(***************************************************************************)
(* C18: when `on` is there and its value is a null, a number or a boolean  *)
(* (no mapping, no sequence, no string), parseWorkflowFile returns no      *)
(* error and a record without trigger that has the description of the      *)
(* leading "##" lines of the same file.                                     *)
(***************************************************************************)
C18_OtherScalarOnGivesNoTrigger ==
    (Returned /\ HasOn(pfile.doc) /\ OnNode(pfile.doc).kind = "scalar"
        /\ OnNode(pfile.doc).tag \in {"null", "int", "bool"}) =>
        /\ presult.err = "nil"
        /\ presult.workflow.Triggers = <<>>
        /\ LET k == LeadingMarked(pfile.lines) IN
           presult.workflow.Description =
               IF k = 0 THEN <<>>
               ELSE Join([i \in 1..k |-> Stripped(pfile.lines[i])], <<"<br>">>)

\* A file that starts with a "##" line and holds `on: true` has returned a
\* record with a description and no trigger.
C18_Witness ==
    /\ Returned
    /\ presult.err = "nil"
    /\ HasOn(pfile.doc)
    /\ OnNode(pfile.doc) = ScalarNode("bool", <<"true">>)
    /\ presult.workflow.Description # <<>>
    /\ presult.workflow.Triggers = <<>>

(***************************************************************************)
(* C19: on every file, the earlier parseWorkflowFile returns an error      *)
(* exactly when the present one does (and the same one), and when they     *)
(* return none, OnPush is true exactly when `push` is among the triggers   *)
(* the present one gives and OnPR exactly when `pull_request` is, whether  *)
(* `on` is a mapping, a sequence, a scalar, anything else, or absent.       *)
(***************************************************************************)
C19_FlagsAreAProjectionOfTriggers ==
    ppc = "return" =>
        \A r \in parseWorkflowFile(pfile) :
            /\ presult.err = r.err
            /\ presult.err = "nil" =>
                  /\ presult.workflow.OnPush <=> Push \in Range(r.workflow.Triggers)
                  /\ presult.workflow.OnPR <=> PullRequest \in Range(r.workflow.Triggers)

\* The earlier version has returned on a file whose `on` is a sequence of a
\* number and `push`, with OnPush set and OnPR not.
C19_Witness ==
    /\ ppc = "return"
    /\ presult.err = "nil"
    /\ HasOn(pfile.doc)
    /\ OnNode(pfile.doc) = SequenceNode(<<ScalarNode("int", <<"1">>), Str(Push)>>)
    /\ presult.workflow.OnPush
    /\ ~presult.workflow.OnPR

(***************************************************************************)
(* C20: in every run of Generate the steps come in one order.  The         *)
(* directory is listed before anything else; parseWorkflowFile is called   *)
(* on the candidates one at a time, in listing order, each once; the table *)
(* is rendered once, after the last candidate was handled; the output file *)
(* is written at most once, after the rendering, with the table rendered;  *)
(* and after Generate has returned nothing happens any more: no retry and  *)
(* no file parsed after the write.                                          *)
(***************************************************************************)
StepRank(step) ==
    CASE step = "ReadDir" -> 1 [] step = "Loop" -> 2 [] step = "Write" -> 3
      [] step = "Done" -> 4 [] OTHER -> 0

CandidateNames(entries) ==
    LET candidates == SelectSeq(entries, IsCandidate) IN
    [k \in DOMAIN candidates |-> candidates[k].name]

StepsSoFar ==
    /\ pc = "ReadDir" =>
          parsed = <<>> /\ workflows = <<>> /\ markdownTable = <<>> /\ disk = diskBefore
    /\ pc = "Loop" =>
          /\ parsed = CandidateNames(SubSeq(listing, 1, index - 1))
          /\ markdownTable = <<>>
          /\ disk = diskBefore
    /\ pc = "Write" =>
          parsed = CandidateNames(listing) /\ markdownTable # <<>> /\ disk = diskBefore
    /\ (pc = "Done" /\ dirState = "ok") => parsed = CandidateNames(listing)
    /\ \A i, j \in DOMAIN parsed : parsed[i] = parsed[j] => i = j

OneStep ==
    /\ StepRank(pc') >= StepRank(pc)
    /\ pc = "ReadDir" => pc' # "ReadDir"
    /\ parsed' # parsed =>
          /\ pc = "Loop" /\ pc' = "Loop"
          /\ index <= Len(listing) /\ IsCandidate(listing[index])
          /\ parsed' = Append(parsed, listing[index].name)
          /\ index' = index + 1
    /\ markdownTable' # markdownTable =>
          pc = "Loop" /\ pc' = "Write" /\ index > Len(listing)
    /\ disk' # disk =>
          pc = "Write" /\ pc' = "Done" /\ disk'.data = markdownTable
    /\ pc # "Done"

C20_StepsInFixedOrder == []StepsSoFar /\ [][OneStep]_vars

\* Generate has written the file after parsing two candidates.
C20_Witness ==
    /\ Written
    /\ Len(parsed) = 2
    /\ disk.data = markdownTable
    /\ disk # diskBefore

(***************************************************************************)
(* C21: at every point of a run, every record stems from exactly one entry *)
(* of the listing, a candidate the loop has passed, whose file gives the   *)
(* record; no two records stem from the same entry; the filename of the    *)
(* record is the name of the entry, without any directory; and the         *)
(* filenames of the records are pairwise distinct.                          *)
(***************************************************************************)
EntriesOf(record) == {i \in DOMAIN listing : listing[i].name = record.Filename}

C21_OneRecordPerEntry ==
    /\ \A k \in DOMAIN workflows :
          /\ Cardinality(EntriesOf(workflows[k])) = 1
          /\ \A i \in EntriesOf(workflows[k]) :
                /\ IsCandidate(listing[i])
                /\ pc = "Loop" => i < index
                /\ RecordOf(workflows[k], listing[i])
          /\ \A c \in DOMAIN workflows[k].Filename : workflows[k].Filename[c] # "/"
    /\ \A k, l \in DOMAIN workflows :
          k # l => /\ workflows[k].Filename # workflows[l].Filename
                   /\ EntriesOf(workflows[k]) \cap EntriesOf(workflows[l]) = {}
    /\ Len(workflows) <= Len(listing)

\* The loop, in the directory test/workflows, has passed two entries and made
\* a record of each, with different descriptions; nothing is rendered yet.
C21_Witness ==
    /\ pc = "Loop"
    /\ Len(workflows) = 2
    /\ index = 3
    /\ workflowsDir = <<"test", "/", "workflows">>
    /\ workflows[1].Description # workflows[2].Description

(***************************************************************************)
(* C22: in the table Generate holds when it returns, the description cell  *)
(* of every row is the description of its record as it is stored, between  *)
(* "| " and " |": nothing is escaped, so a "|" of the description stands   *)
(* in the row unchanged, and an empty description gives an empty cell.      *)
(***************************************************************************)
C22_DescriptionCellIsVerbatim ==
    (dirState = "ok" /\ pc = "Done") =>
        LET rows == DataRows(markdownTable) IN
        /\ Len(rows) = Len(workflows)
        /\ \A k \in DOMAIN rows :
              LET link == <<"|", " ", "[">> \o workflows[k].Filename \o <<"]", "(">>
                          \o LinkTarget(rows[k]) \o <<")">>
                  rest == SubSeq(rows[k], Len(link) + 1, Len(rows[k]))
              IN  /\ HasPrefix(rows[k], link)
                  /\ HasPrefix(rest, <<" ", "|", " ">> \o workflows[k].Description
                                         \o <<" ", "|", " ">>)
                  /\ Written => DataRows(disk.data)[k] = rows[k]

\* The file is written with two rows: the description of one holds a "|",
\* the description of the other is empty.
C22_Witness ==
    /\ Written
    /\ Len(workflows) = 2
    /\ \E i \in DOMAIN workflows[1].Description : workflows[1].Description[i] = "|"
    /\ workflows[2].Description = <<>>
    /\ \E i \in DOMAIN DataRows(disk.data)[1] : DataRows(disk.data)[1][i] = "C"

(***************************************************************************)
(* C23: the text collected for a line of the leading block is the line     *)
(* without the whitespace around it, without its first two characters "##" *)
(* and without the whitespace after them: "## A" gives "A", " ##  B |C\t"  *)
(* gives "B |C", "###A" gives "#A", and "##" alone gives an empty text     *)
(* that is collected all the same, so that "## A", "##", " ##  B |C\t"     *)
(* give "A<br><br>B |C".                                                    *)
(***************************************************************************)
CollectedText(line) ==
    CASE line = <<"#", "#", " ", "A">> -> <<"A">>
      [] line = <<"#", "#">> -> <<>>
      [] line = <<"#", "#", "#", "A">> -> <<"#", "A">>
      [] line = <<" ", "#", "#", " ", " ", "B", " ", "|", "C", "\t">> -> <<"B", " ", "|", "C">>

C23_MarkerAndWhitespaceStripped ==
    (Returned /\ LeadingMarked(pfile.lines) >= 1) =>
        LET k == LeadingMarked(pfile.lines) IN
        /\ SplitAt(presult.workflow.Description, "<br>", <<>>, <<>>)
              = [i \in 1..k |-> CollectedText(pfile.lines[i])]
        /\ SubSeq(pfile.lines, 1, k) = << <<"#", "#", " ", "A">>, <<"#", "#">>,
                                          <<" ", "#", "#", " ", " ", "B", " ", "|", "C", "\t">> >>
              => presult.workflow.Description = <<"A", "<br>", "<br>", "B", " ", "|", "C">>

\* The file of the three lines "## A", "##", " ##  B |C\t" has returned.
C23_Witness ==
    /\ Returned
    /\ presult.err = "nil"
    /\ pfile.lines = << <<"#", "#", " ", "A">>, <<"#", "#">>,
                        <<" ", "#", "#", " ", " ", "B", " ", "|", "C", "\t">> >>
    /\ presult.workflow.Description = <<"A", "<br>", "<br>", "B", " ", "|", "C">>

(***************************************************************************)
(* C24: on every file, the earlier parseWorkflowFile (with the flags       *)
(* isFirstLine and foundDescription) gives the description the present one *)
(* gives: empty when line 1 does not start with "##", and otherwise made   *)
(* of the lines before the first one that does not start with "##".        *)
(***************************************************************************)
C24_BothVersionsSameDescription ==
    ppc = "return" =>
        /\ \A r \in parseWorkflowFile(pfile) :
              presult.workflow.Description = r.workflow.Description
        /\ pfile.perm = "ok" =>
              LET k == LeadingMarked(pfile.lines) IN
              IF k = 0 THEN presult.workflow.Description = <<>>
              ELSE Len(SplitAt(presult.workflow.Description, "<br>", <<>>, <<>>)) = k

\* The earlier version has returned on a file of three lines, the second one
\* without "##" and the others with it, with the content of the first line.
C24_Witness ==
    /\ ppc = "return"
    /\ presult.err = "nil"
    /\ presult.workflow.OnPush \in BOOLEAN
    /\ Len(pfile.lines) = 3
    /\ StartsWithMarker(pfile.lines[1])
    /\ ~StartsWithMarker(pfile.lines[2])
    /\ StartsWithMarker(pfile.lines[3])
    /\ presult.workflow.Description = Stripped(pfile.lines[1])
    /\ presult.workflow.Description # <<>>

(***************************************************************************)
(* C25: when the first line of the file is empty or holds only whitespace, *)
(* the description is empty, in either version of parseWorkflowFile, even  *)
(* when the second line starts with "##": blank lines before the block are *)
(* not passed over.                                                         *)
(***************************************************************************)
IsBlank(line) == \A i \in DOMAIN line : line[i] \in {" ", "\t"}

C25_BlankFirstLineNoDescription ==
    (ppc = "return" /\ pfile.lines # <<>> /\ IsBlank(pfile.lines[1])) =>
        presult.workflow.Description = <<>>

\* A file whose first line holds a space and a tab and whose second line
\* starts with "##" has returned a record.
C25_Witness ==
    /\ ppc = "return"
    /\ presult.err = "nil"
    /\ Len(pfile.lines) >= 2
    /\ pfile.lines[1] = <<" ", "\t">>
    /\ StartsWithMarker(pfile.lines[2])
    /\ Stripped(pfile.lines[2]) # <<>>
    /\ presult.workflow.Description = <<>>

(***************************************************************************)
(* Definitions used to state the properties of the root of the document     *)
(***************************************************************************)
\* The document is well formed and its root is no mapping
RootIsNoMapping(doc) == doc.state = "node" /\ doc.root.kind # "mapping"

\* The document is well formed and its root is a sequence or a scalar that
\* is not null
RootIsSequenceOrValue(doc) ==
    /\ doc.state = "node"
    /\ \/ doc.root.kind = "sequence"
       \/ doc.root.kind = "scalar" /\ doc.root.tag # "null"

\* What Generate does with a candidate whose file is malformed: it is parsed,
\* gets no record and no row, and its diagnostic is printed
SkippedAsMalformed(entry) ==
    /\ \E k \in DOMAIN parsed : parsed[k] = entry.name
    /\ \A k \in DOMAIN workflows : workflows[k].Filename # entry.name
    /\ ~HasRowFor(markdownTable, entry.name)
    /\ ~HasRowFor(disk.data, entry.name)
    /\ \E k \in DOMAIN stdout :
          HasPrefix(stdout[k], <<"Error parsing workflow file", " ">> \o entry.name)

(***************************************************************************)
(* C26, as stated: a well-formed document whose root is no mapping makes   *)
(* parseWorkflowFile return an error, and Generate handles the file as it  *)
(* handles a malformed one.                                                 *)
(***************************************************************************)
C26_NonMappingRootIsAnError ==
    /\ (Returned /\ RootIsNoMapping(pfile.doc)) => presult.err # "nil"
    /\ (dirState = "ok" /\ pc = "Done") =>
          \A i \in DOMAIN listing :
              (IsCandidate(listing[i]) /\ listing[i].file.perm = "ok"
                  /\ RootIsNoMapping(listing[i].file.doc)) => SkippedAsMalformed(listing[i])

(***************************************************************************)
(* C26, amended: a well-formed document whose root is a sequence or a      *)
(* scalar other than null makes parseWorkflowFile return the error of      *)
(* yaml.Unmarshal, and Generate handles the file as it handles a malformed *)
(* one; a root that is null is read as an empty document, without error.   *)
(***************************************************************************)
C26_SequenceOrValueRootIsAnError ==
    /\ (Returned /\ RootIsSequenceOrValue(pfile.doc)) => presult.err = "yaml"
    /\ (Returned /\ RootIsNoMapping(pfile.doc) /\ ~RootIsSequenceOrValue(pfile.doc)) =>
          presult.err = "nil" /\ presult.workflow.Triggers = <<>>
    /\ (dirState = "ok" /\ pc = "Done") =>
          \A i \in DOMAIN listing :
              (IsCandidate(listing[i]) /\ listing[i].file.perm = "ok"
                  /\ RootIsSequenceOrValue(listing[i].file.doc)) =>
                  SkippedAsMalformed(listing[i])

\* Generate has written a table of one row for a directory of two candidates:
\* the first holds a bare string, the second parses.
C26_Witness ==
    /\ Written
    /\ Len(listing) = 2
    /\ IsCandidate(listing[1]) /\ listing[1].file.doc = NodeDoc(Str(Push))
    /\ GoodEntry(listing[2])
    /\ Len(workflows) = 1
    /\ NumDataRows(disk.data) = 1

====
